---- MODULE Spec2Model ----
(***************************************************************************)
(* TicketAI backend: the classification client (src/ai/classifier.js), the *)
(* routing engine (route and its helpers) and the classification job       *)
(* consumer (src/utils/queue-worker.js).                                   *)
(*                                                                         *)
(* Numbers are fixed point: the JavaScript number x is the integer 30 * x, *)
(* so that tenths and the mean of three tenths are exact.  NaN is a value  *)
(* of its own.  Wall-clock fields (processingTimeMs, created_at) and the   *)
(* constant model name are left out of the records.                        *)
(***************************************************************************)
EXTENDS Integers, Sequences, FiniteSets, Bags, TLC

\* ------------------------------------------------------------------------
\* JavaScript values as they come out of JSON.parse, and the coercions the
\* classifier applies to them.

\* 1 and 0.5 in fixed point
One == 30
Half == 15

JSUndefined == [t |-> "undefined", n |-> 0, s |-> ""]
JSNull == [t |-> "null", n |-> 0, s |-> ""]
JSNaN == [t |-> "nan", n |-> 0, s |-> ""]
JSObject == [t |-> "object", n |-> 0, s |-> ""]
JSNum(n) == [t |-> "number", n |-> n, s |-> ""]
JSStr(s) == [t |-> "string", n |-> 0, s |-> s]
JSBool(b) == [t |-> "boolean", n |-> (IF b THEN 1 ELSE 0), s |-> ""]

\* the strings of the model that read as a number, with the number they read as
NumericStrings == [x \in {"", "0.7", "2"} |->
                     CASE x = "" -> 0 [] x = "0.7" -> 21 [] x = "2" -> 60]

\* ToNumber, as applied by Math.min / Math.max to each argument
ToNumber(v) ==
  CASE v.t = "number" -> v
    [] v.t = "nan" -> JSNaN
    [] v.t = "string" -> IF v.s \in DOMAIN NumericStrings
                           THEN JSNum(NumericStrings[v.s]) ELSE JSNaN
    [] v.t = "boolean" -> JSNum(v.n * One)
    [] v.t = "null" -> JSNum(0)
    [] v.t = "undefined" -> JSNaN
    [] v.t = "object" -> JSNaN

\* ToBoolean: what  v || d  tests
Truthy(v) ==
  CASE v.t = "number" -> v.n # 0
    [] v.t = "nan" -> FALSE
    [] v.t = "string" -> v.s # ""
    [] v.t = "boolean" -> v.n = 1
    [] v.t = "null" -> FALSE
    [] v.t = "undefined" -> FALSE
    [] v.t = "object" -> TRUE

\* v || d
JSOr(v, d) == IF Truthy(v) THEN v ELSE d

\* Math.min(a, b) and Math.max(a, b): NaN when either argument converts to NaN
MathMin(a, b) ==
  LET x == ToNumber(a)
      y == ToNumber(b)
  IN  IF x.t = "nan" \/ y.t = "nan" THEN JSNaN
      ELSE IF x.n <= y.n THEN x ELSE y

MathMax(a, b) ==
  LET x == ToNumber(a)
      y == ToNumber(b)
  IN  IF x.t = "nan" \/ y.t = "nan" THEN JSNaN
      ELSE IF x.n >= y.n THEN x ELSE y

\* a + b and a / 3 on numbers
JSAdd(a, b) == IF a.t = "nan" \/ b.t = "nan" THEN JSNaN ELSE JSNum(a.n + b.n)
JSDiv3(a) == IF a.t = "nan" THEN JSNaN ELSE JSNum(a.n \div 3)

\* ------------------------------------------------------------------------
\* classifier.js

CATEGORIES == {"billing", "technical", "feature_request", "bug", "account", "general"}
PRIORITIES == {"low", "medium", "high", "urgent"}
SENTIMENTS == {"positive", "neutral", "negative", "very_negative"}

\* Array.prototype.includes on an array of strings: strict equality
Includes(domain, v) == v.t = "string" /\ v.s \in domain

\* The errors a network call of the program can reject with: code and message,
\* the message a sequence of words (none when the error carries no message).
NoCode == "none"
MkError(code, message) == [code |-> code, message |-> message]
NoError == MkError(NoCode, <<"-">>)

\* What the classification service call comes back with: a rejected call
\* (kind "error"), a body JSON.parse rejects ("unparseable"), the JSON text
\* null ("null"), or a JSON object ("ok") whose fields are in res.  A missing
\* sentiment or confidence object shows as its fields being undefined
\* (result.sentiment?.label).
MkResponse(category, priority, label, score, ccat, cpri, csen, reasoning) ==
  [category |-> category, priority |-> priority, label |-> label, score |-> score,
   ccat |-> ccat, cpri |-> cpri, csen |-> csen, reasoning |-> reasoning]

EmptyResponse ==
  MkResponse(JSUndefined, JSUndefined, JSUndefined, JSUndefined,
             JSUndefined, JSUndefined, JSUndefined, JSUndefined)

Upstream(kind, err, res) == [kind |-> kind, err |-> err, res |-> res]
UpstreamOk(res) == Upstream("ok", NoError, res)
UpstreamError(err) == Upstream("error", err, EmptyResponse)
UpstreamUnparseable == Upstream("unparseable", NoError, EmptyResponse)
UpstreamNull == Upstream("null", NoError, EmptyResponse)

MkClassification(category, priority, label, score, ccat, cpri, csen, reasoning, overall) ==
  [category |-> category, priority |-> priority,
   sentiment |-> [label |-> label, score |-> score],
   confidence |-> [category |-> ccat, priority |-> cpri, sentiment |-> csen],
   reasoning |-> reasoning, overallConfidence |-> overall]

\* classify, catch branch: the fallback classification
Fallback ==
  MkClassification("general", "medium", "neutral", JSNum(0),
                   JSNum(0), JSNum(0), JSNum(0), JSStr("Classification failed"), JSNum(0))

\* classify, try branch: validate and normalize a parsed response
ClampScore(v) == MathMax(JSNum(0 - One), MathMin(JSNum(One), JSOr(v, JSNum(0))))

ClampConfidence(v) == MathMax(JSNum(0), MathMin(JSNum(One), JSOr(v, JSNum(Half))))

Normalize(r) ==
  LET ccat == ClampConfidence(r.ccat)
      cpri == ClampConfidence(r.cpri)
      csen == ClampConfidence(r.csen)
  IN  MkClassification(
        IF Includes(CATEGORIES, r.category) THEN r.category.s ELSE "general",
        IF Includes(PRIORITIES, r.priority) THEN r.priority.s ELSE "medium",
        IF Includes(SENTIMENTS, r.label) THEN r.label.s ELSE "neutral",
        ClampScore(r.score),
        ccat, cpri, csen,
        JSOr(r.reasoning, JSStr("")),
        JSDiv3(JSAdd(JSAdd(ccat, cpri), csen)))

\* classify(ticket): the prompt carries the ticket, the result depends on what
\* the service answers.  A rejected call, an unparseable body and a null body
\* (result.category throws) all end in the catch branch.
classify(up) == IF up.kind = "ok" THEN Normalize(up.res) ELSE Fallback

\* ------------------------------------------------------------------------
\* The routing engine (src/unnamed/part_002).  Ticket fields, rule actions
\* and decision fields are JavaScript values; an id, a name or a skill is a
\* string.  skills and team_members are sets: the code only asks whether
\* some element satisfies a test, and a null list behaves as an empty one in
\* every such test.  A number of the engine is fixed point as well.

Tenth == 3

\* x || d on a numeric column
OrNum(v, d) == IF Truthy(v) THEN ToNumber(v).n ELSE d

\* a === b
StrictEq(a, b) == a.t # "nan" /\ a = b

\* a < b when the operands are not both strings: both converted to numbers,
\* false when either is NaN
JSLess(a, b) ==
  LET x == ToNumber(a)
      y == ToNumber(b)
  IN  x.t = "number" /\ y.t = "number" /\ x.n < y.n

JSLessEq(a, b) ==
  LET x == ToNumber(a)
      y == ToNumber(b)
  IN  x.t = "number" /\ y.t = "number" /\ x.n <= y.n

\* Array.prototype.sort with the comparator (a, b) => key[a] - key[b] applied
\* to the indexes  idx  (a sequence): stable, ascending in key
RECURSIVE InsertByKey(_, _, _)
InsertByKey(sorted, i, key) ==
  IF sorted = <<>> THEN <<i>>
  ELSE LET last == sorted[Len(sorted)]
       IN  IF key[last] <= key[i] THEN Append(sorted, i)
           ELSE Append(InsertByKey(SubSeq(sorted, 1, Len(sorted) - 1), i, key), last)

RECURSIVE SortByKey(_, _)
SortByKey(idx, key) ==
  IF idx = <<>> THEN <<>>
  ELSE InsertByKey(SortByKey(SubSeq(idx, 1, Len(idx) - 1), key), idx[Len(idx)], key)

\* Array.prototype.filter over the indexes 1..n of a list
RECURSIVE FilterIdx(_, _)
FilterIdx(n, keep) ==
  IF n = 0 THEN <<>>
  ELSE IF n \in keep THEN Append(FilterIdx(n - 1, keep), n) ELSE FilterIdx(n - 1, keep)

\* the value of a condition: a plain value, a list of values ("any of
\* these"), or an object of comparison operators (undefined: not stated)
PlainValue(v) ==
  [kind |-> "plain", value |-> v, list |-> {},
   gt |-> JSUndefined, lt |-> JSUndefined, gte |-> JSUndefined, lte |-> JSUndefined,
   ne |-> JSUndefined]
ListValue(vs) == [PlainValue(JSUndefined) EXCEPT !.kind = "array", !.list = vs]
OpsValue(gt, lt, gte, lte, ne) ==
  [PlainValue(JSUndefined) EXCEPT !.kind = "object", !.gt = gt, !.lt = lt,
                                  !.gte = gte, !.lte = lte, !.ne = ne]

\* rule.conditions: null, or an object; Object.entries(conditions) is its
\* [key, value] pairs in insertion order
NullConditions == [null |-> TRUE, entries |-> << >>]
Conditions(entries) == [null |-> FALSE, entries |-> entries]

\* ticket[key]
TicketValue(ticket, key) == IF key \in DOMAIN ticket THEN ticket[key] ELSE JSUndefined

\* matchesRule, one entry of Object.entries(conditions) whose value is not null
EntryHolds(ticketValue, value) ==
  CASE value.kind = "array" -> ticketValue \in value.list
    [] value.kind = "object" ->
         /\ value.gt # JSUndefined => JSLess(value.gt, ticketValue)
         /\ value.lt # JSUndefined => JSLess(ticketValue, value.lt)
         /\ value.gte # JSUndefined => JSLessEq(value.gte, ticketValue)
         /\ value.lte # JSUndefined => JSLessEq(ticketValue, value.lte)
         /\ value.ne # JSUndefined => ~StrictEq(ticketValue, value.ne)
    [] value.kind = "plain" -> StrictEq(ticketValue, value.value)

\* matchesRule, a value that is null: Array.isArray(null) is false and
\* typeof null === 'object', so value.$gt reads a property of null, a TypeError
EntryThrows(value) == value.kind = "plain" /\ value.value = JSNull

\* matchesRule, the loop over the entries: "true", "false", or "throws"
RECURSIVE MatchEntries(_, _)
MatchEntries(ticket, entries) ==
  IF entries = << >> THEN "true"
  ELSE IF EntryThrows(Head(entries).value) THEN "throws"
  ELSE IF ~EntryHolds(TicketValue(ticket, Head(entries).key), Head(entries).value) THEN "false"
  ELSE MatchEntries(ticket, Tail(entries))

matchesRule(ticket, conditions) ==
  ~conditions.null /\ MatchEntries(ticket, conditions.entries) = "true"

\* the rules taken as they come
UnsortedRules(rules) == FilterIdx(Len(rules), 1..Len(rules))

\* applyRoutingRules: [...rules].sort((a, b) => (b.priority || 0) - (a.priority || 0)),
\* as positions in  rules
SortedRules(rules) ==
  SortByKey(FilterIdx(Len(rules), 1..Len(rules)),
            [i \in 1..Len(rules) |-> 0 - OrNum(rules[i].priority, 0)])

\* the first index of  order  whose rule matches; 0 when none does, -1 when
\* matchesRule throws before a rule matches
RECURSIVE FirstMatch(_, _, _)
FirstMatch(ticket, rules, order) ==
  IF order = <<>> THEN 0
  ELSE LET conditions == rules[Head(order)].conditions
       IN  IF ~conditions.null /\ MatchEntries(ticket, conditions.entries) = "throws" THEN 0 - 1
           ELSE IF matchesRule(ticket, conditions) THEN Head(order)
           ELSE FirstMatch(ticket, rules, Tail(order))

\* applyRoutingRules: the position in  rules  of the rule whose actions are
\* returned, 0 for null, -1 for a TypeError
applyRoutingRules(ticket, rules) ==
  IF Len(rules) = 0 THEN 0 ELSE FirstMatch(ticket, rules, SortedRules(rules))

\* findTeamByCategory: categoryToSkills[category] || ['support']
categoryToSkills(category) ==
  CASE category = JSStr("billing") -> {"billing", "payments", "finance"}
    [] category = JSStr("technical") -> {"technical", "engineering", "support"}
    [] category = JSStr("feature_request") -> {"product", "feedback"}
    [] category = JSStr("bug") -> {"technical", "engineering", "qa"}
    [] category = JSStr("account") -> {"account", "customer_success"}
    [] category = JSStr("general") -> {"support", "general"}
    [] OTHER -> {"support"}

\* findTeamByCategory: the position of the team found, 0 for null
findTeamByCategory(category, teams) ==
  IF Len(teams) = 0 THEN 0
  ELSE LET found == {i \in 1..Len(teams) :
                       teams[i].skills \cap categoryToSkills(category) # {}}
       IN  IF found # {} THEN CHOOSE i \in found : \A j \in found : i <= j ELSE 1

\* findBestAgentInTeam: categorySkills[ticket.category] || []
categorySkills(category) ==
  CASE category = JSStr("billing") -> {"billing", "finance"}
    [] category = JSStr("technical") -> {"technical", "engineering"}
    [] category = JSStr("feature_request") -> {"product"}
    [] category = JSStr("bug") -> {"technical", "qa"}
    [] category = JSStr("account") -> {"account", "customer_success"}
    [] OTHER -> {}

\* (agent.current_ticket_count || 0) / (agent.max_tickets || 10); the
\* capacities of the model divide One
Load(agent) == (OrNum(agent.current_ticket_count, 0) * One) \div OrNum(agent.max_tickets, 10)

\* agent.team_members.some(tm => tm.team_id === teamId)
InTeam(agent, teamId) == \E tm \in agent.team_members : JSStr(tm.team_id) = teamId

\* agent.team_members.some(tm => tm.team_id === teamId && tm.is_team_lead)
LeadsTeam(agent, teamId) ==
  \E tm \in agent.team_members : JSStr(tm.team_id) = teamId /\ tm.is_team_lead

\* the score without the bonus of the team's lead
ScoreNoLeadBonus(agent, teamId, ticket) ==
  (IF agent.skills # {} /\ Truthy(ticket.category)
     THEN Cardinality(categorySkills(ticket.category) \cap agent.skills) * 10 * One
     ELSE 0)
  + (One - Load(agent)) * 20

\* findBestAgentInTeam: the score of an agent of the team
Score(agent, teamId, ticket) ==
  (IF agent.skills # {} /\ Truthy(ticket.category)
     THEN Cardinality(categorySkills(ticket.category) \cap agent.skills) * 10 * One
     ELSE 0)
  + (One - Load(agent)) * 20
  + (IF LeadsTeam(agent, teamId) THEN 5 * One ELSE 0)

\* findBestAgentInTeam: the position of the agent found, 0 for null / undefined
findBestAgentInTeam(teamId, agents, ticket) ==
  LET teamAgents == FilterIdx(Len(agents), {i \in 1..Len(agents) : InTeam(agents[i], teamId)})
      scoredAgents == SortByKey(teamAgents,
                        [i \in 1..Len(agents) |-> 0 - Score(agents[i], teamId, ticket)])
  IN  IF scoredAgents = <<>> THEN 0 ELSE scoredAgents[1]

\* toLowerCase on the texts of the model
toLowerCase ==
  [s \in {"", "hello", "Please REFUND me", "please refund me", "the Manager", "the manager"} |->
     CASE s = "Please REFUND me" -> "please refund me"
       [] s = "the Manager" -> "the manager"
       [] OTHER -> s]

escalationKeywords ==
  {"cancel", "refund", "lawsuit", "lawyer", "legal", "manager", "supervisor",
   "escalate", "complaint", "terrible", "awful", "unacceptable", "fraud"}

\* text.includes(keyword) on the texts of the model, as written
includes ==
  [s \in DOMAIN toLowerCase |->
     CASE s = "please refund me" -> {"refund"}
       [] s = "the manager" -> {"manager"}
       [] OTHER -> {}]

\* shouldEscalate; `${ticket.subject} ${ticket.body}`.toLowerCase() is taken
\* part by part: no keyword holds a space
shouldEscalate(ticket) ==
  \/ ticket.priority = JSStr("urgent")
  \/ ticket.sentiment = JSStr("very_negative")
  \/ JSLess(ticket.sentiment_score, JSNum(0 - Half))
  \/ \E keyword \in escalationKeywords :
       \/ keyword \in includes[toLowerCase[ticket.subject.s]]
       \/ keyword \in includes[toLowerCase[ticket.body.s]]

\* the first agent of the list, whatever the loads
FirstListed(agents, idx) == IF idx = << >> THEN 0 ELSE idx[1]

\* findLeastBusyAgent over the agents at positions  idx : the position of the
\* agent found, 0 for null
findLeastBusyAgent(agents, idx) ==
  LET sorted == SortByKey(idx, [i \in 1..Len(agents) |-> Load(agents[i])])
  IN  IF sorted = <<>> THEN 0 ELSE sorted[1]

\* leads of any team, whatever team was chosen
AnyLead(agent, teamId) == \E tm \in agent.team_members : tm.is_team_lead

\* findSeniorAgent: tm.is_team_lead && (!teamId || tm.team_id === teamId)
SeniorLead(agent, teamId) ==
  \E tm \in agent.team_members :
     tm.is_team_lead /\ (~Truthy(teamId) \/ JSStr(tm.team_id) = teamId)

\* findSeniorAgent: the position of the agent found, 0 for null
findSeniorAgent(agents, teamId) ==
  LET leads == FilterIdx(Len(agents), {i \in 1..Len(agents) : SeniorLead(agents[i], teamId)})
      managers == FilterIdx(Len(agents), {i \in 1..Len(agents) : agents[i].role = "manager"})
  IN  IF Len(leads) > 0 THEN findLeastBusyAgent(agents, leads)
      ELSE IF Len(managers) > 0 THEN findLeastBusyAgent(agents, managers)
      ELSE 0

\* the confidence with the value set by rule matching kept as a floor
ConfidenceWithFloor(routing, ticket) ==
  LET both == IF Truthy(routing.assignToTeam) /\ Truthy(routing.assignToUser)
                THEN 3 * Tenth ELSE 0
      processed == IF Truthy(ticket.ai_processed) THEN Tenth ELSE 0
      confident == IF JSLess(JSNum(8 * Tenth), ticket.ai_confidence) THEN Tenth ELSE 0
      confidence == Half + both + processed + confident
      capped == IF confidence <= One THEN confidence ELSE One
  IN  IF routing.confidence > capped THEN routing.confidence ELSE capped

\* calculateRoutingConfidence
calculateRoutingConfidence(routing, ticket) ==
  LET base == Half
      both == IF Truthy(routing.assignToTeam) /\ Truthy(routing.assignToUser)
                THEN 3 * Tenth ELSE 0
      processed == IF Truthy(ticket.ai_processed) THEN Tenth ELSE 0
      confident == IF JSLess(JSNum(8 * Tenth), ticket.ai_confidence) THEN Tenth ELSE 0
      confidence == base + both + processed + confident
  IN  IF confidence <= One THEN confidence ELSE One

\* rule.add_tags: null, or the rule's own array
NullTags == [null |-> TRUE, items |-> << >>]
Tags(items) == [null |-> FALSE, items |-> items]

\* route: const routing = { ... }
NewRouting ==
  [assignToUser |-> JSNull, assignToTeam |-> JSNull, setPriority |-> JSNull,
   addTags |-> << >>, reason |-> << >>, confidence |-> 0]

\* what applyRoutingRules returns for the rule it took (null: none matched)
NoRuleMatch == [null |-> TRUE, ruleName |-> "", assignToTeam |-> JSNull,
                assignToUser |-> JSNull, setPriority |-> JSNull, addTags |-> NullTags]

RuleMatch(ticket, rules) ==
  LET m == applyRoutingRules(ticket, rules)
  IN  IF m <= 0 THEN NoRuleMatch
      ELSE [null |-> FALSE, ruleName |-> rules[m].name,
            assignToTeam |-> rules[m].assign_to_team,
            assignToUser |-> rules[m].assign_to_user,
            setPriority |-> rules[m].set_priority, addTags |-> rules[m].add_tags]

\* route, step 1: apply routing rules first
Step1(ruleMatch) ==
  IF ruleMatch.null THEN NewRouting
  ELSE [assignToUser |-> ruleMatch.assignToUser, assignToTeam |-> ruleMatch.assignToTeam,
        setPriority |-> ruleMatch.setPriority, addTags |-> ruleMatch.addTags.items,
        reason |-> <<"Matched routing rule: ", ruleMatch.ruleName>>,
        confidence |-> 9 * Tenth]

\* the category fallback run whether or not a rule gave a team
Step2Always(routing, ticket, teams) ==
  LET teamByCategory ==
        IF Truthy(ticket.category) THEN findTeamByCategory(ticket.category, teams) ELSE 0
  IN  IF teamByCategory = 0 THEN routing
      ELSE [routing EXCEPT
              !.assignToTeam = JSStr(teams[teamByCategory].id),
              !.reason = IF @ # << >> THEN @
                         ELSE <<"Routed to ", teams[teamByCategory].name,
                                " team based on category">>]

\* route, step 2: no rule gave a team, route by category
Step2(routing, ticket, teams) ==
  LET teamByCategory ==
        IF ~Truthy(routing.assignToTeam) /\ Truthy(ticket.category)
          THEN findTeamByCategory(ticket.category, teams) ELSE 0
  IN  IF teamByCategory = 0 THEN routing
      ELSE [routing EXCEPT
              !.assignToTeam = JSStr(teams[teamByCategory].id),
              !.reason = IF @ # << >> THEN @
                         ELSE <<"Routed to ", teams[teamByCategory].name,
                                " team based on category">>]

\* route, step 3: the best agent in the team
Step3(routing, ticket, agents) ==
  LET bestAgent ==
        IF Truthy(routing.assignToTeam) /\ ~Truthy(routing.assignToUser)
          THEN findBestAgentInTeam(routing.assignToTeam, agents, ticket) ELSE 0
  IN  IF bestAgent = 0 THEN routing
      ELSE [routing EXCEPT
              !.assignToUser = JSStr(agents[bestAgent].id),
              !.reason = @ \o <<" -> Assigned to ", agents[bestAgent].first_name>>]

\* an escalation that leaves the rule's priority alone
Step4KeepsPriority(routing, ticket, agents) ==
  IF ~shouldEscalate(ticket) \/ Truthy(routing.setPriority) THEN routing
  ELSE [routing EXCEPT !.setPriority = JSStr("urgent"),
                       !.addTags = Append(@, "escalated")]

\* route, step 4: escalation
Step4(routing, ticket, agents) ==
  IF ~shouldEscalate(ticket) THEN routing
  ELSE LET seniorAgent == findSeniorAgent(agents, routing.assignToTeam)
           escalated == [routing EXCEPT !.setPriority = JSStr("urgent"),
                                        !.addTags = Append(@, "escalated")]
       IN  IF seniorAgent = 0 THEN escalated
           ELSE [escalated EXCEPT
                   !.assignToUser = JSStr(agents[seniorAgent].id),
                   !.reason = @ \o <<" (Escalated to senior agent)">>]

\* load balancing whenever no user is assigned, with or without a team
Step5WithoutUser(routing, agents) ==
  LET leastBusyAgent ==
        IF ~Truthy(routing.assignToUser)
          THEN findLeastBusyAgent(agents, FilterIdx(Len(agents), 1..Len(agents))) ELSE 0
  IN  IF leastBusyAgent = 0 THEN routing
      ELSE [routing EXCEPT !.assignToUser = JSStr(agents[leastBusyAgent].id),
                           !.reason = <<"Assigned via load balancing">>]

\* route, step 5: load balancing when nothing is assigned
Step5(routing, agents) ==
  LET leastBusyAgent ==
        IF ~Truthy(routing.assignToUser) /\ ~Truthy(routing.assignToTeam)
          THEN findLeastBusyAgent(agents, FilterIdx(Len(agents), 1..Len(agents))) ELSE 0
  IN  IF leastBusyAgent = 0 THEN routing
      ELSE [routing EXCEPT !.assignToUser = JSStr(agents[leastBusyAgent].id),
                           !.reason = <<"Assigned via load balancing">>]

\* route: the decision returned
route(ticket, agents, teams, rules) ==
  LET routing ==
        Step5(Step4(Step3(Step2(Step1(RuleMatch(ticket, rules)), ticket, teams),
                          ticket, agents),
                    ticket, agents),
              agents)
  IN  [routing EXCEPT !.confidence = calculateRoutingConfidence(routing, ticket)]

\* route: the rules after the call.  routing.addTags = ruleMatch.addTags || []
\* is the matched rule's own add_tags array when the rule has one, and step 4
\* pushes 'escalated' onto it
RulesAfter(ticket, rules) ==
  LET m == applyRoutingRules(ticket, rules)
  IN  IF m > 0 /\ ~rules[m].add_tags.null /\ shouldEscalate(ticket)
        THEN [rules EXCEPT ![m].add_tags.items = Append(@, "escalated")]
        ELSE rules

\* the inputs of the model for route

MaxCalls == 2
MaxPool == 2
MaxRules == 2

RouteTicket(category, priority, sentiment, sentiment_score, subject, body, ai_processed, ai_confidence) ==
  [category |-> category, priority |-> priority, sentiment |-> sentiment,
   sentiment_score |-> sentiment_score, subject |-> subject, body |-> body,
   ai_processed |-> ai_processed, ai_confidence |-> ai_confidence]

\* a ticket with no escalation trigger, and its variants with one
CalmTicket(category) ==
  RouteTicket(category, JSStr("low"), JSStr("neutral"), JSNum(0), JSStr("hello"),
              JSStr("hello"), JSBool(TRUE), JSNum(9 * Tenth))

RouteTickets ==
  UNION {{CalmTicket(category),
          [CalmTicket(category) EXCEPT !.sentiment_score = JSNull],
          [CalmTicket(category) EXCEPT !.priority = JSStr("urgent")],
          [CalmTicket(category) EXCEPT !.sentiment = JSStr("very_negative")],
          [CalmTicket(category) EXCEPT !.sentiment_score = JSNum(0 - 7 * Tenth)],
          [CalmTicket(category) EXCEPT !.subject = JSStr("Please REFUND me")],
          [CalmTicket(category) EXCEPT !.body = JSStr("the Manager")]} :
         category \in {JSStr("billing"), JSNull}}

TeamMember(team_id, is_team_lead) == [team_id |-> team_id, is_team_lead |-> is_team_lead]

Agent(id, skills, current_ticket_count, max_tickets, role, is_active, team_members) ==
  [id |-> id, first_name |-> id, skills |-> skills, is_active |-> is_active,
   current_ticket_count |-> current_ticket_count, max_tickets |-> max_tickets,
   role |-> role, team_members |-> team_members]

\* the agents of the model, before they are given an id
AgentKinds ==
  {Agent("", {"billing"}, JSNull, JSNull, "agent", TRUE, {TeamMember("T1", FALSE)}),
   Agent("", {"billing"}, JSNum(2), JSNum(5), "agent", TRUE, {TeamMember("T1", FALSE)}),
   Agent("", {}, JSNull, JSNull, "agent", TRUE, {TeamMember("T1", TRUE)}),
   Agent("", {}, JSNum(2), JSNum(5), "agent", TRUE, {TeamMember("T1", TRUE)}),
   Agent("", {}, JSNull, JSNull, "agent", TRUE, {TeamMember("T2", TRUE)}),
   Agent("", {}, JSNum(2), JSNum(5), "manager", TRUE, {}),
   Agent("", {}, JSNull, JSNull, "agent", TRUE, {})}

\* the agent lists: users.id is a primary key, the agent at position i is a<i>
AgentPools ==
  LET ids == <<"a1", "a2", "a3">>
  IN  UNION {{[i \in 1..n |-> [pool[i] EXCEPT !.id = ids[i], !.first_name = ids[i]]] :
                pool \in [1..n -> AgentKinds]} : n \in 0..MaxPool}

Team(id, name, skills) == [id |-> id, name |-> name, skills |-> skills]

TeamLists ==
  LET T1 == Team("T1", "Billing", {"billing", "payments"})
      T2 == Team("T2", "Helpdesk", {"support"})
  IN  {<< >>, <<T1>>, <<T1, T2>>, <<T2, T1>>}

Rule(name, priority, conditions, assign_to_team, assign_to_user, set_priority, add_tags) ==
  [name |-> name, priority |-> priority, conditions |-> conditions,
   assign_to_team |-> assign_to_team, assign_to_user |-> assign_to_user,
   set_priority |-> set_priority, add_tags |-> add_tags]

RuleKinds ==
  {Rule("vip", JSNum(1), Conditions(<< >>), JSNull, JSNull, JSStr("high"), Tags(<<"vip">>)),
   Rule("billing", JSNum(1), Conditions(<<[key |-> "category", value |-> PlainValue(JSStr("billing"))]>>),
        JSStr("T2"), JSNull, JSNull, NullTags),
   Rule("quiet", JSNull,
        Conditions(<<[key |-> "sentiment_score",
                      value |-> OpsValue(JSUndefined, JSUndefined, JSNum(0),
                                         JSUndefined, JSUndefined)]>>),
        JSNull, JSStr("a2"), JSStr("low"), Tags(<< >>))}

\* the rule lists: rows of routing_rules, each at most once
RuleLists ==
  UNION {{rules \in [1..n -> RuleKinds] : \A i, j \in 1..n : rules[i] = rules[j] => i = j} :
           n \in 0..MaxRules}

\* a second choice of inputs for route: more categories, teams of other
\* skills, agents that are not active, and one rule of every kind of condition
WideTickets ==
  UNION {{CalmTicket(category),
          [CalmTicket(category) EXCEPT !.ai_processed = JSBool(FALSE), !.ai_confidence = JSNull],
          [CalmTicket(category) EXCEPT !.ai_processed = JSBool(FALSE)],
          [CalmTicket(category) EXCEPT !.ai_confidence = JSNum(8 * Tenth)],
          [CalmTicket(category) EXCEPT !.sentiment_score = JSNum(0 - 7 * Tenth)],
          [CalmTicket(category) EXCEPT !.sentiment_score = JSNull]} :
         category \in {JSStr("billing"), JSStr("technical"), JSStr("bug"),
                       JSStr("general"), JSNull}}

WideTeamLists ==
  LET kinds == {Team("T1", "Billing", {"billing", "payments"}),
                Team("T2", "Helpdesk", {"support"}),
                Team("T3", "Quality", {"qa"}),
                Team("T4", "Frontdesk", {"general"})}
  IN  {<< >>} \cup {<<t>> : t \in kinds}
        \cup {<<t, u>> : <<t, u>> \in {pair \in kinds \X kinds : pair[1] # pair[2]}}

WideAgentPools ==
  LET ids == <<"a1", "a2", "a3">>
      kinds == {Agent("", {"billing"}, JSNull, JSNull, "agent", TRUE, {TeamMember("T1", FALSE)}),
                Agent("", {"billing"}, JSNull, JSNull, "agent", FALSE, {TeamMember("T1", FALSE)}),
                Agent("", {}, JSNull, JSNull, "agent", FALSE, {TeamMember("T1", TRUE)}),
                Agent("", {}, JSNull, JSNull, "agent", FALSE, {}),
                Agent("", {}, JSNum(2), JSNum(5), "agent", TRUE, {})}
  IN  UNION {{[i \in 1..n |-> [pool[i] EXCEPT !.id = ids[i], !.first_name = ids[i]]] :
                pool \in [1..n -> kinds]} : n \in 0..MaxPool}

\* the rule lists of the second choice: no rule, or one rule
WideRuleLists ==
  LET None == JSUndefined
      Entry(key, value) == [key |-> key, value |-> value]
      Sets(name, conditions) ==
        Rule(name, JSNum(1), conditions, JSNull, JSNull, JSStr("high"), NullTags)
  IN  {<< >>} \cup {<<rule>> : rule \in
        {Sets("all", Conditions(<< >>)),
         Sets("none", NullConditions),
         Rule("plain", JSNum(1),
              Conditions(<<Entry("category", PlainValue(JSStr("billing")))>>),
              JSStr("T2"), JSNull, JSNull, NullTags),
         Sets("list", Conditions(<<Entry("category",
                                         ListValue({JSStr("billing"), JSStr("technical")}))>>)),
         Sets("gt", Conditions(<<Entry("sentiment_score",
                                       OpsValue(JSNum(0 - Half), None, None, None, None))>>)),
         Sets("lt", Conditions(<<Entry("sentiment_score",
                                       OpsValue(None, JSNum(0), None, None, None))>>)),
         Sets("gte", Conditions(<<Entry("sentiment_score",
                                        OpsValue(None, None, JSNum(0), None, None))>>)),
         Sets("lte", Conditions(<<Entry("sentiment_score",
                                        OpsValue(None, None, None, JSNum(0 - 7 * Tenth), None))>>)),
         Sets("ne", Conditions(<<Entry("category",
                                       OpsValue(None, None, None, None, JSStr("billing")))>>)),
         Sets("range", Conditions(<<Entry("sentiment_score",
                                          OpsValue(None, JSNum(0), JSNum(0 - 7 * Tenth), None, None))>>)),
         Sets("two", Conditions(<<Entry("category", PlainValue(JSStr("technical"))),
                                  Entry("sentiment_score",
                                        OpsValue(None, JSNum(0), None, None, None))>>)),
         Sets("unset", Conditions(<<Entry("category", PlainValue(JSNull))>>)),
         Sets("open", Conditions(<<Entry("category", PlainValue(JSStr("billing"))),
                                   Entry("assigned_to", PlainValue(JSNull))>>))}}

\* ------------------------------------------------------------------------
\* queue-worker.js: the data the worker moves

\* at most this many pushes onto the primary queue by the producers
MaxEnqueue == 2
\* at most this many processing loops alive at once
MaxLoops == 2

\* the rows of the tickets table, and the tickets the producers enqueue jobs for
TicketIds == {"t1", "t2"}
JobTickets == {"t1"}
LoopIds == 1..MaxLoops

\* the job the ticket routes enqueue for a ticket
MkJob(ticketId, tenantId, subject, body) ==
  [ticketId |-> ticketId, tenantId |-> tenantId, subject |-> subject, body |-> body]

JobOf(t) ==
  IF t = "t1" THEN MkJob("t1", "tenantA", "invoice question", "charged twice")
  ELSE MkJob("t2", "tenantB", "login broken", "cannot sign in")

NoJob == MkJob("", "", "", "")

\* JSON.stringify of a job and of a routing job: the text on the queue
Stringify(job) == <<"job", job.ticketId, job.tenantId, job.subject, job.body>>

\* a routing job that leaves the tenant out
StringifyRoutingNoTenant(ticketId, tenantId) == <<"routing", ticketId, "">>

\* JSON.stringify({ticketId: job.ticketId, tenantId: job.tenantId})
StringifyRouting(ticketId, tenantId) == <<"routing", ticketId, tenantId>>

\* a queue entry that is not JSON
Garbage == <<"not json">>

\* JSON.parse of a queue entry: throws a SyntaxError on text that is not JSON
SyntaxError == MkError(NoCode, <<"Unexpected", "token">>)
ParseThrows(text) == text[1] # "job"
Parse(text) == MkJob(text[2], text[3], text[4], text[5])

Payloads == {Stringify(JobOf(t)) : t \in JobTickets} \cup {Garbage}

\* redis list commands: lpush adds at the head, brpop takes from the tail
LPush(q, x) == <<x>> \o q
RPopped(q) == q[Len(q)]
RPopRest(q) == SubSeq(q, 1, Len(q) - 1)

\* isRetryableError
retryableCodes == {"ECONNRESET", "ETIMEDOUT", "ECONNREFUSED", "RATE_LIMITED"}

MessageIncludes(message, code) == \E i \in 1..Len(message) : message[i] = code

\* a check that looks at error.code alone
isRetryableErrorByCode(error) == error.code \in retryableCodes

isRetryableError(error) ==
  \E code \in retryableCodes : MessageIncludes(error.message, code) \/ error.code = code

\* the errors the network calls of the model reject with
Errors ==
  { MkError("ECONNRESET", <<>>),
    MkError(NoCode, <<"connect", "ETIMEDOUT">>),
    MkError("PGRST301", <<"JWT", "expired">>),
    MkError(NoCode, <<>>) }

\* the error a redis call rejects with where the worker does not inspect it
RedisErrors == { MkError("ECONNRESET", <<>>) }

\* what the classification service answers to the worker's jobs
GoodResponse ==
  MkResponse(JSStr("billing"), JSStr("high"), JSStr("negative"), JSNum(0 - 21),
             JSNum(27), JSNum(27), JSNum(27), JSStr("double charge"))

WorkerUpstream ==
  { UpstreamOk(GoodResponse),
    UpstreamError(MkError("ECONNRESET", <<>>)),
    UpstreamUnparseable }

NoUpstream == Upstream("none", NoError, EmptyResponse)

\* a row of the tickets table (the columns the worker writes), as created
MkTicket(category, priority, sentiment, sentiment_score, ai_confidence, ai_processed) ==
  [category |-> category, priority |-> priority, sentiment |-> sentiment,
   sentiment_score |-> sentiment_score, ai_confidence |-> ai_confidence,
   ai_processed |-> ai_processed]

NewTicket == MkTicket("", "medium", "", JSNull, JSNull, FALSE)

\* tickets.update({...}).eq('id', ticketId)
UpdateRow(c) ==
  MkTicket(c.category, c.priority, c.sentiment.label, c.sentiment.score,
           c.overallConfidence, TRUE)

\* classifications.insert({...})
AuditRow(ticketId, c) ==
  [ticket_id |-> ticketId,
   predicted_category |-> c.category, category_confidence |-> c.confidence.category,
   predicted_priority |-> c.priority, priority_confidence |-> c.confidence.priority,
   predicted_sentiment |-> c.sentiment.label,
   sentiment_confidence |-> c.confidence.sentiment,
   sentiment_score |-> c.sentiment.score]

\* logger lines
LogLine(msg, ticketId) == [msg |-> msg, ticketId |-> ticketId]

\* one processing loop: where it is suspended and the locals it holds
MkLoop(pc, job, up, cls) == [pc |-> pc, job |-> job, up |-> up, cls |-> cls]
IdleLoop == MkLoop("idle", NoJob, NoUpstream, Fallback)
WaitingLoop == MkLoop("brpop", NoJob, NoUpstream, Fallback)
SleepingLoop == MkLoop("sleep", NoJob, NoUpstream, Fallback)

JobPcs == {"classify", "insert", "update", "routePush", "retryPush"}

VARIABLES
  running,          \* QueueWorker.running
  processingCount,  \* QueueWorker.processingCount
  lp,               \* the processLoop() invocations, by slot
  queue,            \* redis list ai:classification:queue
  retryQueue,       \* redis list ai:classification:queue:retry
  routingQueue,     \* redis list ai:routing:queue
  tickets,          \* table tickets
  classifications,  \* table classifications, a bag of rows
  autoRouting,      \* process.env.ENABLE_AUTO_ROUTING === 'true'
  lastLog,          \* the last line given to the logger
  enqueued,         \* pushes onto the primary queue so far
  crashes,          \* worker process crashes so far
  thrown,           \* the error raised in the last step (NoError: none was)
  cIn,              \* classify on its own: the service's answer
  cOut,             \* classify on its own: the returned classification
  cDone,            \* classify on its own: returned
  bIn,              \* classifyBatch: the tickets argument
  bNext,            \* classifyBatch: index of the next ticket the for loop takes
  bCalls,           \* classifyBatch: indexes whose classify call is in flight
  bOut,             \* classifyBatch: results
  bPc,              \* classifyBatch: where the function is
  rTicket,          \* route: the ticket argument
  rAgents,          \* route: the agents argument
  rTeams,           \* route: the teams argument
  rRules,           \* route: the rules argument, the objects as they are now
  rGiven,           \* route: the rules as they were first passed
  rMatch,           \* route: what applyRoutingRules returned in the last call
  rOut,             \* route: the decisions returned, each as it was returned
  rThrown           \* route: the last call ended in a TypeError

vars == <<running, processingCount, lp, queue, retryQueue, routingQueue, tickets,
          classifications, autoRouting, lastLog, enqueued, crashes, thrown, cIn, cOut,
          cDone, bIn, bNext, bCalls, bOut, bPc, rTicket, rAgents, rTeams, rRules,
          rGiven, rMatch, rOut, rThrown>>

workerVars == <<running, processingCount, lp, queue, retryQueue, routingQueue, tickets,
                classifications, autoRouting, lastLog, enqueued, crashes, thrown>>

classifyVars == <<cIn, cOut, cDone>>

batchVars == <<bIn, bNext, bCalls, bOut, bPc>>

routeVars == <<rTicket, rAgents, rTeams, rRules, rGiven, rMatch, rOut, rThrown>>

\* no route call made
RouteIdle ==
  /\ rTicket = CalmTicket(JSNull)
  /\ rAgents = << >>
  /\ rTeams = << >>
  /\ rRules = << >>
  /\ rGiven = << >>
  /\ rMatch = NoRuleMatch
  /\ rOut = << >>
  /\ rThrown = FALSE

\* no classifyBatch call under way
BatchIdle ==
  /\ bIn = <<>>
  /\ bNext = 1
  /\ bCalls = {}
  /\ bOut = <<>>
  /\ bPc = "returned"

\* QueueWorker constructor, empty queues, tickets as created
WorkerInit ==
  /\ running = FALSE
  /\ processingCount = 0
  /\ lp = [l \in LoopIds |-> IdleLoop]
  /\ queue = <<>>
  /\ retryQueue = <<>>
  /\ routingQueue = <<>>
  /\ tickets = [t \in TicketIds |-> NewTicket]
  /\ classifications = EmptyBag
  /\ autoRouting \in BOOLEAN
  /\ lastLog = LogLine("", "")
  /\ enqueued = 0
  /\ crashes = 0
  /\ thrown = NoError

Init ==
  /\ WorkerInit
  /\ cIn = UpstreamUnparseable
  /\ cOut = Fallback
  /\ cDone = TRUE
  /\ BatchIdle
  /\ RouteIdle

\* ------------------------------------------------------------------------
\* queue-worker.js: start, stop and the processing loop.  A step of a loop is
\* what runs between two awaits: the continuation of the call that returned,
\* up to the next call it awaits.

\* a loop that never looks at the flag: while (true)
LoopCheckForever == WaitingLoop

\* processLoop: while (this.running), evaluated when the loop comes round
LoopCheck == IF running THEN WaitingLoop ELSE IdleLoop

\* a finally block that forgets the decrement
FinallyKeeps(n) == n

\* processJob: finally { this.processingCount-- }
Finally(n) == n - 1

\* start(): returns at once when running; else sets the flag and calls
\* processLoop(), which runs up to its first brpop
Start ==
  /\ ~running
  /\ \E l \in LoopIds :
       /\ lp[l].pc = "idle"
       /\ \A k \in LoopIds : k < l => lp[k].pc # "idle"
       /\ lp' = [lp EXCEPT ![l] = WaitingLoop]
  /\ running' = TRUE
  /\ lastLog' = LogLine("Queue worker started", "")
  /\ thrown' = NoError
  /\ UNCHANGED <<processingCount, queue, retryQueue, routingQueue, tickets,
                 classifications, autoRouting, enqueued, crashes, classifyVars, batchVars, routeVars>>

\* stop()
Stop ==
  /\ running' = FALSE
  /\ lastLog' = LogLine("Queue worker stopping...", "")
  /\ thrown' = NoError
  /\ UNCHANGED <<processingCount, lp, queue, retryQueue, routingQueue, tickets,
                 classifications, autoRouting, enqueued, crashes, classifyVars, batchVars, routeVars>>

\* routes/tickets.js, routes/webhooks.js: a producer pushes onto the primary queue
Enqueue(text) ==
  /\ enqueued < MaxEnqueue
  /\ enqueued' = enqueued + 1
  /\ queue' = LPush(queue, text)
  /\ thrown' = NoError
  /\ UNCHANGED <<running, processingCount, lp, retryQueue, routingQueue, tickets,
                 classifications, autoRouting, lastLog, crashes, classifyVars, batchVars, routeVars>>

\* brpop returns an entry that parses: processJob starts (processingCount++,
\* the log line) and runs up to the classification service call
BrpopJob(l) ==
  /\ lp[l].pc = "brpop"
  /\ queue # <<>>
  /\ ~ParseThrows(RPopped(queue))
  /\ queue' = RPopRest(queue)
  /\ processingCount' = processingCount + 1
  /\ lastLog' = LogLine("Processing classification job", Parse(RPopped(queue)).ticketId)
  /\ lp' = [lp EXCEPT ![l] = MkLoop("classify", Parse(RPopped(queue)), NoUpstream,
                                    Fallback)]
  /\ thrown' = NoError
  /\ UNCHANGED <<running, retryQueue, routingQueue, tickets, classifications,
                 autoRouting, enqueued, crashes, classifyVars, batchVars, routeVars>>

\* brpop returns an entry JSON.parse throws on: the loop's catch logs and sleeps
BrpopUnparseable(l) ==
  /\ lp[l].pc = "brpop"
  /\ queue # <<>>
  /\ ParseThrows(RPopped(queue))
  /\ queue' = RPopRest(queue)
  /\ lastLog' = LogLine("Queue processing error:", "")
  /\ lp' = [lp EXCEPT ![l] = SleepingLoop]
  /\ thrown' = SyntaxError
  /\ UNCHANGED <<running, processingCount, retryQueue, routingQueue, tickets,
                 classifications, autoRouting, enqueued, crashes, classifyVars, batchVars, routeVars>>

\* brpop times out on the empty queue: result is null, the loop comes round
BrpopTimeout(l) ==
  /\ lp[l].pc = "brpop"
  /\ queue = <<>>
  /\ lp' = [lp EXCEPT ![l] = LoopCheck]
  /\ thrown' = NoError
  /\ UNCHANGED <<running, processingCount, queue, retryQueue, routingQueue, tickets,
                 classifications, autoRouting, lastLog, enqueued, crashes, classifyVars, batchVars, routeVars>>

\* brpop rejects (queue transport failure): the loop's catch logs and sleeps
BrpopThrows(l, error) ==
  /\ lp[l].pc = "brpop"
  /\ lastLog' = LogLine("Queue processing error:", "")
  /\ lp' = [lp EXCEPT ![l] = SleepingLoop]
  /\ thrown' = error
  /\ UNCHANGED <<running, processingCount, queue, retryQueue, routingQueue, tickets,
                 classifications, autoRouting, enqueued, crashes, classifyVars, batchVars, routeVars>>

\* sleep(1000) is over: the loop comes round
SleepDone(l) ==
  /\ lp[l].pc = "sleep"
  /\ lp' = [lp EXCEPT ![l] = LoopCheck]
  /\ thrown' = NoError
  /\ UNCHANGED <<running, processingCount, queue, retryQueue, routingQueue, tickets,
                 classifications, autoRouting, lastLog, enqueued, crashes, classifyVars, batchVars, routeVars>>

\* ------------------------------------------------------------------------
\* queue-worker.js: processJob

\* the job is over without an error escaping: finally, then the loop comes round
JobReturns(l) ==
  /\ processingCount' = Finally(processingCount)
  /\ lp' = [lp EXCEPT ![l] = LoopCheck]

\* the end of the try block: the completion log line
JobCompletes(l) ==
  /\ lastLog' = LogLine("Classification completed", lp[l].job.ticketId)
  /\ JobReturns(l)

\* catch (error): log, then push onto the retry queue when retryable
Catch(l, error) ==
  /\ lastLog' = LogLine("Classification job failed", lp[l].job.ticketId)
  /\ IF isRetryableError(error)
       THEN /\ lp' = [lp EXCEPT ![l].pc = "retryPush"]
            /\ processingCount' = processingCount
       ELSE JobReturns(l)

\* classifier.classify returns (it never throws): the audit insert is called
ClassifyReturns(l, up) ==
  /\ lp[l].pc = "classify"
  /\ lp' = [lp EXCEPT ![l].pc = "insert", ![l].up = up, ![l].cls = classify(up)]
  /\ thrown' = NoError
  /\ UNCHANGED <<running, processingCount, queue, retryQueue, routingQueue, tickets,
                 classifications, autoRouting, lastLog, enqueued, crashes, classifyVars, batchVars, routeVars>>

\* the insert resolves; stored: the row is in the table; not stored: the store
\* answered { error } and the worker does not look at the answer
InsertResolves(l, stored) ==
  /\ lp[l].pc = "insert"
  /\ classifications' =
       IF stored
         THEN classifications (+) SetToBag({AuditRow(lp[l].job.ticketId, lp[l].cls)})
         ELSE classifications
  /\ lp' = [lp EXCEPT ![l].pc = "update"]
  /\ thrown' = NoError
  /\ UNCHANGED <<running, processingCount, queue, retryQueue, routingQueue, tickets,
                 autoRouting, lastLog, enqueued, crashes, classifyVars, batchVars, routeVars>>

InsertThrows(l, error) ==
  /\ lp[l].pc = "insert"
  /\ Catch(l, error)
  /\ thrown' = error
  /\ UNCHANGED <<running, queue, retryQueue, routingQueue, tickets, classifications,
                 autoRouting, enqueued, crashes, classifyVars, batchVars, routeVars>>

\* the update resolves; then the routing push is called when auto-routing is
\* on, else the job completes
UpdateResolves(l, stored) ==
  /\ lp[l].pc = "update"
  /\ tickets' =
       IF stored /\ lp[l].job.ticketId \in DOMAIN tickets
         THEN [tickets EXCEPT ![lp[l].job.ticketId] = UpdateRow(lp[l].cls)]
         ELSE tickets
  /\ IF autoRouting
       THEN /\ lp' = [lp EXCEPT ![l].pc = "routePush"]
            /\ UNCHANGED <<processingCount, lastLog>>
       ELSE JobCompletes(l)
  /\ thrown' = NoError
  /\ UNCHANGED <<running, queue, retryQueue, routingQueue, classifications,
                 autoRouting, enqueued, crashes, classifyVars, batchVars, routeVars>>

UpdateThrows(l, error) ==
  /\ lp[l].pc = "update"
  /\ Catch(l, error)
  /\ thrown' = error
  /\ UNCHANGED <<running, queue, retryQueue, routingQueue, tickets, classifications,
                 autoRouting, enqueued, crashes, classifyVars, batchVars, routeVars>>

\* lpush onto the routing queue resolves: the job completes
RoutePushResolves(l) ==
  /\ lp[l].pc = "routePush"
  /\ routingQueue' =
       LPush(routingQueue, StringifyRouting(lp[l].job.ticketId, lp[l].job.tenantId))
  /\ JobCompletes(l)
  /\ thrown' = NoError
  /\ UNCHANGED <<running, queue, retryQueue, tickets, classifications,
                 autoRouting, enqueued, crashes, classifyVars, batchVars, routeVars>>

RoutePushThrows(l, error) ==
  /\ lp[l].pc = "routePush"
  /\ Catch(l, error)
  /\ thrown' = error
  /\ UNCHANGED <<running, queue, retryQueue, routingQueue, tickets, classifications,
                 autoRouting, enqueued, crashes, classifyVars, batchVars, routeVars>>

\* lpush onto the retry queue resolves: finally, the job is over
RetryPushResolves(l) ==
  /\ lp[l].pc = "retryPush"
  /\ retryQueue' = LPush(retryQueue, Stringify(lp[l].job))
  /\ JobReturns(l)
  /\ thrown' = NoError
  /\ UNCHANGED <<running, queue, routingQueue, tickets, classifications,
                 autoRouting, lastLog, enqueued, crashes, classifyVars, batchVars, routeVars>>

\* lpush onto the retry queue rejects: finally, and the error escapes processJob
\* into the loop's catch, which logs and sleeps
RetryPushThrows(l, error) ==
  /\ lp[l].pc = "retryPush"
  /\ processingCount' = Finally(processingCount)
  /\ lastLog' = LogLine("Queue processing error:", "")
  /\ lp' = [lp EXCEPT ![l] = SleepingLoop]
  /\ thrown' = error
  /\ UNCHANGED <<running, queue, retryQueue, routingQueue, tickets, classifications,
                 autoRouting, enqueued, crashes, classifyVars, batchVars, routeVars>>

\* a step of loop l in which the awaited call returned normally
LoopReturns(l) ==
  \/ BrpopJob(l)
  \/ BrpopUnparseable(l)
  \/ BrpopTimeout(l)
  \/ SleepDone(l)
  \/ \E up \in WorkerUpstream : ClassifyReturns(l, up)
  \/ \E stored \in BOOLEAN : InsertResolves(l, stored)
  \/ \E stored \in BOOLEAN : UpdateResolves(l, stored)
  \/ RoutePushResolves(l)
  \/ RetryPushResolves(l)

\* a step of loop l in which the awaited call rejected
LoopRaises(l) ==
  \/ \E error \in RedisErrors : BrpopThrows(l, error)
  \/ \E error \in Errors : InsertThrows(l, error)
  \/ \E error \in Errors : UpdateThrows(l, error)
  \/ \E error \in Errors : RoutePushThrows(l, error)
  \/ \E error \in RedisErrors : RetryPushThrows(l, error)

LoopStep(l) == LoopReturns(l) \/ LoopRaises(l)

Next ==
  \/ Start
  \/ Stop
  \/ \E text \in Payloads : Enqueue(text)
  \/ \E l \in LoopIds : LoopStep(l)

Spec == Init /\ [][Next]_vars

\* Every call a loop awaits comes back and its continuation runs: the network
\* answers or times out, the timer fires.  Nothing obliges a call to fail.  A
\* brpop that times out while the worker runs leaves the state as it is.
FairSpec == Spec /\ \A l \in LoopIds : WF_vars(LoopReturns(l))

\* ------------------------------------------------------------------------
\* The worker process dies (kill, out of memory, host loss) and a new process
\* constructs a new QueueWorker: what the process held in memory is gone, the
\* redis lists and the tables stay.

\* at most this many crashes
MaxCrashes == 1

Crash ==
  /\ crashes < MaxCrashes
  /\ crashes' = crashes + 1
  /\ running' = FALSE
  /\ processingCount' = 0
  /\ lp' = [l \in LoopIds |-> IdleLoop]
  /\ thrown' = NoError
  /\ UNCHANGED <<queue, retryQueue, routingQueue, tickets, classifications,
                 autoRouting, lastLog, enqueued, classifyVars, batchVars, routeVars>>

CrashSpec == Init /\ [][Next \/ Crash]_vars

\* ------------------------------------------------------------------------
\* classify on its own, over what the service can answer

EnumInputs(valid) == {JSStr(valid), JSStr("xyz"), JSUndefined}

ConfidenceInputs ==
  {JSNum(0 - 21), JSNum(0), JSNum(21), JSNum(45), JSUndefined, JSStr("0.7"),
   JSStr("high"), JSBool(TRUE)}

ScoreInputs == {JSNum(0 - 60), JSNum(0 - 21), JSNum(0), JSNum(45), JSNull, JSStr("high")}

ReasoningInputs == {JSStr("because"), JSUndefined}

AllResponses ==
  { MkResponse(category, priority, label, score, ccat, cpri, csen, reasoning) :
      category \in EnumInputs("billing"), priority \in EnumInputs("urgent"),
      label \in EnumInputs("very_negative"), score \in ScoreInputs,
      ccat \in ConfidenceInputs, cpri \in ConfidenceInputs, csen \in ConfidenceInputs,
      reasoning \in ReasoningInputs }

AllUpstream ==
  {UpstreamOk(res) : res \in AllResponses}
    \cup {UpstreamError(error) : error \in Errors}
    \cup {UpstreamUnparseable, UpstreamNull}

ClassifyInit ==
  /\ WorkerInit
  /\ autoRouting = FALSE
  /\ cIn \in AllUpstream
  /\ cOut = Fallback
  /\ cDone = FALSE
  /\ BatchIdle
  /\ RouteIdle

\* const classification = await classifier.classify(ticket)
ClassifyCall ==
  /\ ~cDone
  /\ cOut' = classify(cIn)
  /\ cDone' = TRUE
  /\ UNCHANGED <<cIn, workerVars, batchVars, routeVars>>

ClassifySpec == ClassifyInit /\ [][ClassifyCall]_vars

\* ------------------------------------------------------------------------
\* classifier.js: classifyBatch.  A step is what runs between two awaits.

MaxBatch == 3

\* a ticket handed to classifyBatch: its id and what the service answers for it
BatchTickets == [id : TicketIds, up : WorkerUpstream]

BatchInputs == UNION {[1..n -> BatchTickets] : n \in 0..MaxBatch}

\* a loop body that does not wait for the call it made
NoAwait == "loop"

\* const result = await classify(ticket): the function is suspended on the call
Await == "await"

\* { ticketId: ticket.id, ...result }
BatchEntry(ticket, result) == [ticketId |-> ticket.id, result |-> result]

\* classifyBatch(tickets): const results = []
BatchInit ==
  /\ WorkerInit
  /\ autoRouting = FALSE
  /\ cIn = UpstreamUnparseable
  /\ cOut = Fallback
  /\ cDone = TRUE
  /\ bIn \in BatchInputs
  /\ bNext = 1
  /\ bCalls = {}
  /\ bOut = <<>>
  /\ bPc = "loop"
  /\ RouteIdle

\* for (const ticket of tickets): the next ticket is taken and classify called
BatchCall ==
  /\ bPc = "loop"
  /\ bNext <= Len(bIn)
  /\ bCalls' = bCalls \cup {bNext}
  /\ bNext' = bNext + 1
  /\ bPc' = Await
  /\ UNCHANGED <<bIn, bOut, workerVars, classifyVars, routeVars>>

\* the awaited call returns: results.push({ticketId: ticket.id, ...result})
BatchResume(i) ==
  /\ bPc = "await"
  /\ i \in bCalls
  /\ bCalls' = bCalls \ {i}
  /\ bOut' = Append(bOut, BatchEntry(bIn[i], classify(bIn[i].up)))
  /\ bPc' = "loop"
  /\ UNCHANGED <<bIn, bNext, workerVars, classifyVars, routeVars>>

\* the iterator is exhausted: return results
BatchReturn ==
  /\ bPc = "loop"
  /\ bNext > Len(bIn)
  /\ bPc' = "returned"
  /\ UNCHANGED <<bIn, bNext, bCalls, bOut, workerVars, classifyVars, routeVars>>

BatchNext ==
  \/ BatchCall
  \/ \E i \in 1..MaxBatch : BatchResume(i)
  \/ BatchReturn

BatchSpec == BatchInit /\ [][BatchNext]_vars

\* ------------------------------------------------------------------------
\* route() called on one set of objects, over the inputs of the model

RouteInit ==
  /\ WorkerInit
  /\ autoRouting = FALSE
  /\ cIn = UpstreamUnparseable
  /\ cOut = Fallback
  /\ cDone = TRUE
  /\ BatchIdle
  /\ rTicket \in RouteTickets
  /\ rAgents \in AgentPools
  /\ rTeams \in TeamLists
  /\ rRules \in RuleLists
  /\ rGiven = rRules
  /\ rMatch = NoRuleMatch
  /\ rOut = << >>
  /\ rThrown = FALSE

\* const routing = await routerAI.route({ticket, agents, teams, rules}): the
\* call runs to its return without a pause
RouteCall ==
  /\ Len(rOut) < MaxCalls
  /\ IF applyRoutingRules(rTicket, rRules) < 0
       THEN /\ rThrown' = TRUE
            /\ UNCHANGED <<rMatch, rOut, rRules>>
       ELSE /\ rThrown' = FALSE
            /\ rMatch' = RuleMatch(rTicket, rRules)
            /\ rOut' = Append(rOut, route(rTicket, rAgents, rTeams, rRules))
            /\ rRules' = RulesAfter(rTicket, rRules)
  /\ UNCHANGED <<rTicket, rAgents, rTeams, rGiven, workerVars, classifyVars, batchVars>>

RouteSpec == RouteInit /\ [][RouteCall]_vars

\* route() called over the second choice of inputs
WideInit ==
  /\ WorkerInit
  /\ autoRouting = FALSE
  /\ cIn = UpstreamUnparseable
  /\ cOut = Fallback
  /\ cDone = TRUE
  /\ BatchIdle
  /\ rTicket \in WideTickets
  /\ rAgents \in WideAgentPools
  /\ rTeams \in WideTeamLists
  /\ rRules \in WideRuleLists
  /\ rGiven = rRules
  /\ rMatch = NoRuleMatch
  /\ rOut = << >>
  /\ rThrown = FALSE

WideSpec == WideInit /\ [][RouteCall]_vars

\* ------------------------------------------------------------------------
\* Properties

InJob(l) == lp[l].pc \in JobPcs
AllIdle == \A l \in LoopIds : lp[l].pc = "idle"
LiveLoops == {l \in LoopIds : lp[l].pc # "idle"}
Moved(l) == lp'[l] # lp[l]
QueuesUnchanged == queue' = queue /\ retryQueue' = retryQueue /\ routingQueue' = routingQueue

\* the retryable taxonomy of the specification, by error code or by message
RetryableTaxonomy(error) ==
  \/ error.code \in {"ECONNRESET", "ETIMEDOUT", "ECONNREFUSED", "RATE_LIMITED"}
  \/ \E i \in 1..Len(error.message) :
       error.message[i] \in {"ECONNRESET", "ETIMEDOUT", "ECONNREFUSED", "RATE_LIMITED"}

\* C1: for one worker, whatever the sequence of start(), stop() and queue
\* deliveries, at most one processing loop is alive and at most one job is
\* being processed.
C1_AtMostOneJob == processingCount <= 1 /\ Cardinality(LiveLoops) <= 1

\* C2: once stop() has been called and start() is not called again, every loop
\* ends; no blocking receive is issued while the flag is down; stop() itself
\* changes nothing but the flag (and the log), so a job in flight is not cut
\* short; and a job in flight leaves its steps before the last one only because
\* a store or queue call raised.
C2_StopDrainsLoop ==
  /\ (~running) ~> (running \/ AllIdle)
  /\ [][(~running /\ ~running') =>
          \A l \in LoopIds : lp'[l].pc = "brpop" => lp[l].pc = "brpop"]_vars
  /\ [][(running /\ ~running') =>
          /\ lp' = lp /\ processingCount' = processingCount /\ QueuesUnchanged
          /\ tickets' = tickets /\ classifications' = classifications]_vars
  /\ [][\A l \in LoopIds :
          (InJob(l) /\ lp'[l].pc \notin JobPcs /\ thrown' = NoError) =>
             \/ lp[l].pc \in {"routePush", "retryPush"}
             \/ lp[l].pc = "update" /\ ~autoRouting]_vars

\* stop() came while a job was in flight, the job completed, the loop has ended
C2_Witness == ~running /\ AllIdle /\ lastLog.msg = "Classification completed"

\* C3: when a call of processJob raises, the failure is logged with the job's
\* ticketId and nothing is put on a queue in that step; a retryable error leads
\* to exactly one lpush of the unchanged job onto the retry queue (which adds
\* one entry that parses back to the job, or none when redis rejects the push)
\* and to nothing on the primary or routing queue; any other error ends the
\* job with no push; and nothing else ever pushes onto the retry queue.
C3_RetryableRequeued ==
  /\ [][\A l \in LoopIds :
          (lp[l].pc \in {"insert", "update", "routePush"} /\ Moved(l)
             /\ thrown' # NoError) =>
            /\ lastLog' = LogLine("Classification job failed", lp[l].job.ticketId)
            /\ QueuesUnchanged
            /\ IF RetryableTaxonomy(thrown')
                 THEN lp'[l].pc = "retryPush" /\ lp'[l].job = lp[l].job
                 ELSE lp'[l].pc \notin JobPcs]_vars
  /\ [][\A l \in LoopIds :
          (lp[l].pc = "retryPush" /\ Moved(l)) =>
            /\ lp'[l].pc \notin JobPcs
            /\ queue' = queue /\ routingQueue' = routingQueue
            /\ IF thrown' = NoError
                 THEN /\ Len(retryQueue') = Len(retryQueue) + 1
                      /\ SubSeq(retryQueue', 2, Len(retryQueue')) = retryQueue
                      /\ ~ParseThrows(retryQueue'[1])
                      /\ Parse(retryQueue'[1]) = lp[l].job
                      /\ lp[l].job \in {JobOf(t) : t \in TicketIds}
                 ELSE retryQueue' = retryQueue]_vars
  /\ [][retryQueue' # retryQueue =>
          \E l \in LoopIds : lp[l].pc = "retryPush" /\ Moved(l)]_vars
  /\ [][\A l \in LoopIds : (InJob(l) /\ lp'[l].pc \in JobPcs) => lp'[l].job = lp[l].job]_vars

\* a retryable failure of ticket t1's job was logged and its copy is the one
\* entry of the retry queue
C3_Witness ==
  /\ retryQueue = <<Stringify(JobOf("t1"))>>
  /\ lastLog = LogLine("Classification job failed", "t1")
  /\ queue = <<>> /\ routingQueue = <<>>
  /\ thrown = NoError

\* C4: a job whose classification service call failed with a transient error
\* goes to the retry push and is not persisted: it is never at the audit
\* insert, the ticket update or the routing push.
C4_TransientClassifyRetried ==
  \A l \in LoopIds :
    (InJob(l) /\ lp[l].up.kind = "error" /\ RetryableTaxonomy(lp[l].up.err))
      => lp[l].pc = "retryPush"

\* C5: the ticket update of a job whose classification failed permanently
\* (an unparseable answer, a non-transient error) leaves the tickets table as
\* it was.
C5_FailedLeavesTicket ==
  [][\A l \in LoopIds :
       (lp[l].pc = "update" /\ Moved(l) /\ lp[l].up.kind # "ok"
          /\ ~RetryableTaxonomy(lp[l].up.err)) => tickets' = tickets]_vars

\* C6: when the worker crashes, every job it had dequeued and not finished is
\* (still or again) on the primary or the retry queue.
C6_NoJobLostOnCrash ==
  [][crashes' # crashes =>
       \A l \in LoopIds :
         InJob(l) =>
           \/ \E i \in 1..Len(queue') : queue'[i] = Stringify(lp[l].job)
           \/ \E i \in 1..Len(retryQueue') : retryQueue'[i] = Stringify(lp[l].job)]_vars

\* C7: while the worker runs, a job on the retry queue is eventually taken off
\* it (to be processed again).
C7_RetryEventuallyTaken ==
  \A t \in TicketIds :
    (running /\ \E i \in 1..Len(retryQueue) : retryQueue[i] = Stringify(JobOf(t)))
      ~> (~running \/ ~\E i \in 1..Len(retryQueue) : retryQueue[i] = Stringify(JobOf(t)))

\* C8: a second processing of a job with the same classification adds no
\* second audit row: no row is in the classifications table twice.
C8_NoDuplicateAudit ==
  \A row \in BagToSet(classifications) : CopiesIn(row, classifications) <= 1

\* C9: processingCount is the number of jobs in flight (so it is back to its
\* value once a job is over, however it ended); an exception out of brpop,
\* JSON.parse or processJob is logged and the loop backs off; after the
\* back-off the loop issues another blocking receive while the worker runs;
\* an error inside processJob leaves the loop alive; and a loop ends only
\* when the running flag is down.
C9_LoopSurvivesFailures ==
  /\ [](processingCount = Cardinality({l \in LoopIds : InJob(l)}))
  /\ [][\A l \in LoopIds :
          /\ (lp[l].pc \in {"brpop", "retryPush"} /\ Moved(l) /\ thrown' # NoError) =>
               /\ lp'[l] = SleepingLoop
               /\ lastLog' = LogLine("Queue processing error:", "")
          /\ (lp[l].pc = "sleep" /\ Moved(l) /\ running) => lp'[l] = WaitingLoop
          /\ (lp[l].pc \in {"insert", "update", "routePush"} /\ Moved(l)
                /\ thrown' # NoError /\ running) => lp'[l].pc \in {"retryPush", "brpop"}
          /\ (lp[l].pc # "idle" /\ lp'[l].pc = "idle") => ~running]_vars

\* after an exception the only loop alive has backed off and is in another
\* blocking receive, with no job counted as in flight
C9_Witness ==
  /\ running
  /\ lastLog = LogLine("Queue processing error:", "")
  /\ thrown = NoError
  /\ processingCount = 0
  /\ \E l \in LoopIds : LiveLoops = {l} /\ lp[l].pc = "brpop"

\* C10: every classification classify returns has its enum fields in their
\* domains (an unrecognised value replaced by general / medium / neutral),
\* its confidences and overallConfidence in [0,1] and its score in [-1,1].
InRange(x, lo, hi) == x.t = "number" /\ lo <= x.n /\ x.n <= hi

C10_ResultInDomain ==
  cDone =>
    /\ cOut.category \in CATEGORIES
    /\ cOut.priority \in PRIORITIES
    /\ cOut.sentiment.label \in SENTIMENTS
    /\ (cIn.kind = "ok" /\ ~Includes(CATEGORIES, cIn.res.category)) => cOut.category = "general"
    /\ (cIn.kind = "ok" /\ ~Includes(PRIORITIES, cIn.res.priority)) => cOut.priority = "medium"
    /\ (cIn.kind = "ok" /\ ~Includes(SENTIMENTS, cIn.res.label)) => cOut.sentiment.label = "neutral"
    /\ InRange(cOut.confidence.category, 0, One)
    /\ InRange(cOut.confidence.priority, 0, One)
    /\ InRange(cOut.confidence.sentiment, 0, One)
    /\ InRange(cOut.overallConfidence, 0, One)
    /\ InRange(cOut.sentiment.score, 0 - One, One)

\* C11: classify never raises: whatever the service does, the call returns;
\* and when the service failed (transport error, unparseable or empty
\* answer) the result is the defensive fallback: general / medium / neutral
\* with score 0, the three confidences 0, overallConfidence 0 and an empty
\* reasoning string.
C11_FallbackOnError ==
  (cDone /\ cIn.kind # "ok") =>
    cOut = MkClassification("general", "medium", "neutral", JSNum(0),
                            JSNum(0), JSNum(0), JSNum(0), JSStr(""), JSNum(0))

\* C12: classifyBatch handles its tickets one at a time: at most one classify
\* call is in flight, the call for a ticket starts only when every earlier
\* ticket's result is in the list, and the list returned has one entry per
\* ticket, in the order given, each with its ticket's id and classification.
C12_BatchSequential ==
  /\ Cardinality(bCalls) <= 1
  /\ \A i \in bCalls : Len(bOut) = i - 1
  /\ Len(bOut) <= Len(bIn)
  /\ \A i \in 1..Len(bOut) :
       /\ bOut[i].ticketId = bIn[i].id
       /\ bOut[i].result = classify(bIn[i].up)
  /\ bPc = "returned" => Len(bOut) = Len(bIn)

\* a batch of three tickets, the first two of one id, has returned
C12_Witness ==
  /\ bPc = "returned"
  /\ Len(bIn) = MaxBatch
  /\ bIn[1].id = bIn[2].id
  /\ bIn[1].up # bIn[2].up
  /\ bIn[2].id # bIn[3].id
  /\ Len(bOut) = MaxBatch

\* C13: route is deterministic: two successive calls on the same ticket,
\* agents, teams and rules return decisions equal in every field, addTags
\* included.
C13_RouteDeterministic == Len(rOut) >= 2 => rOut[1] = rOut[2]

\* C14: when an escalation trigger holds for the ticket (priority urgent,
\* sentiment very_negative, sentiment_score below -0.5, or an escalation
\* keyword in subject or body in any letter case), every decision route
\* returns has setPriority urgent and 'escalated' among its addTags, whatever
\* the agents, teams and rules, a matching rule with another priority included.
KeywordTexts == {"Please REFUND me", "please refund me", "the Manager", "the manager"}

Trigger(ticket) ==
  \/ ticket.priority = JSStr("urgent")
  \/ ticket.sentiment = JSStr("very_negative")
  \/ (ticket.sentiment_score.t = "number" /\ ticket.sentiment_score.n < 0 - Half)
  \/ ticket.subject.s \in KeywordTexts
  \/ ticket.body.s \in KeywordTexts

C14_EscalationForcesUrgent ==
  \A k \in 1..Len(rOut) :
     Trigger(rTicket) =>
       /\ rOut[k].setPriority = JSStr("urgent")
       /\ \E i \in 1..Len(rOut[k].addTags) : rOut[k].addTags[i] = "escalated"

\* a ticket whose only trigger is a keyword in capitals was routed while a
\* matching rule set priority high
C14_Witness ==
  /\ Len(rOut) >= 1
  /\ rTicket.priority = JSStr("low")
  /\ rTicket.sentiment = JSStr("neutral")
  /\ rTicket.sentiment_score = JSNum(0)
  /\ rTicket.subject = JSStr("Please REFUND me")
  /\ ~rMatch.null
  /\ rMatch.setPriority = JSStr("high")
  /\ rOut[1].setPriority = JSStr("urgent")

\* the rule list given, rearranged by the permutation p
Permuted(rules, p) == [i \in 1..Len(rules) |-> rules[p[i]]]

\* C15 as claimed: for every list of rules, rule matching chooses the same
\* rule whatever the order in which the rules are supplied.
C15_OrderIndependent ==
  Len(rOut) = 1 =>
    \A p \in Permutations(1..Len(rGiven)) :
       RuleMatch(rTicket, Permuted(rGiven, p)) = rMatch

\* C15 as amended: for every list of rules whose priorities (a missing one
\* counting as 0) are pairwise different, rule matching chooses the same
\* rule whatever the order in which the rules are supplied.
DistinctPriorities(rules) ==
  \A i, j \in 1..Len(rules) :
     OrNum(rules[i].priority, 0) = OrNum(rules[j].priority, 0) => i = j

C15_OrderIndependentDistinct ==
  (Len(rOut) = 1 /\ DistinctPriorities(rGiven)) =>
    \A p \in Permutations(1..Len(rGiven)) :
       RuleMatch(rTicket, Permuted(rGiven, p)) = rMatch

\* two matching rules of different priority were given lowest first, and the
\* one of higher priority was taken
C15_Witness ==
  /\ Len(rOut) = 1
  /\ Len(rGiven) = 2
  /\ DistinctPriorities(rGiven)
  /\ \A i \in 1..2 : matchesRule(rTicket, rGiven[i].conditions)
  /\ OrNum(rGiven[1].priority, 0) < OrNum(rGiven[2].priority, 0)
  /\ rMatch.ruleName = rGiven[2].name

\* the decision of steps 1 to 3 on the objects as first passed
BeforeEscalation ==
  Step3(Step2(Step1(RuleMatch(rTicket, rGiven)), rTicket, rTeams), rTicket, rAgents)

IsLead(agent) == \E tm \in agent.team_members : tm.is_team_lead

\* the agent of the pool a decision assigns, as a set of positions
UserIn(decision, positions) ==
  \E i \in positions : decision.assignToUser = JSStr(rAgents[i].id)

\* C16 as claimed: when the ticket escalates and the pool holds a team lead
\* or a manager, assignToUser is a team lead or a manager; when it holds
\* neither, assignToUser is the agent step 3 chose.
C16_EscalatesToSenior ==
  \A k \in 1..Len(rOut) :
     shouldEscalate(rTicket) =>
       LET seniors == {i \in 1..Len(rAgents) :
                         IsLead(rAgents[i]) \/ rAgents[i].role = "manager"}
       IN  IF seniors # {} THEN UserIn(rOut[k], seniors)
           ELSE rOut[k].assignToUser = BeforeEscalation.assignToUser

\* C16 as amended: when the ticket escalates, the candidates are the leads
\* of the team chosen by steps 1 and 2 (the leads of any team when none was
\* chosen) or, when there is no such lead, the managers.  If there is a
\* candidate, assignToUser is one; if there is none, assignToUser is what
\* steps 1 to 3 left, except that with neither team nor user assigned it is
\* the agent load balancing picks (none for an empty pool).
C16_EscalatesToSeniorOfTeam ==
  \A k \in 1..Len(rOut) :
     shouldEscalate(rTicket) =>
       LET team == BeforeEscalation.assignToTeam
           leads == {i \in 1..Len(rAgents) :
                       \E tm \in rAgents[i].team_members :
                          tm.is_team_lead /\ (team = JSNull \/ JSStr(tm.team_id) = team)}
           managers == {i \in 1..Len(rAgents) : rAgents[i].role = "manager"}
           candidates == IF leads # {} THEN leads ELSE managers
       IN  IF candidates # {} THEN UserIn(rOut[k], candidates)
           ELSE IF BeforeEscalation.assignToUser # JSNull \/ team # JSNull
             THEN rOut[k].assignToUser = BeforeEscalation.assignToUser
           ELSE IF rAgents = << >> THEN rOut[k].assignToUser = JSNull
           ELSE UserIn(rOut[k], 1..Len(rAgents))

\* an escalating ticket went to team T1, and the pool's only lead leads T2:
\* the member of T1 that step 3 chose keeps the ticket
C16_Witness ==
  /\ Len(rOut) >= 1
  /\ shouldEscalate(rTicket)
  /\ BeforeEscalation.assignToTeam = JSStr("T1")
  /\ \E i \in 1..Len(rAgents) : IsLead(rAgents[i])
  /\ \A i \in 1..Len(rAgents) : ~LeadsTeam(rAgents[i], JSStr("T1")) /\ rAgents[i].role # "manager"
  /\ BeforeEscalation.assignToUser # JSNull
  /\ rOut[1].assignToUser = BeforeEscalation.assignToUser

\* C17: with an empty agent list and an empty team list route returns a
\* decision with neither assignToUser nor assignToTeam set and with a
\* non-empty reason that explains why nothing was assigned.
C17_EmptyPoolsExplained ==
  \A k \in 1..Len(rOut) :
     (rAgents = << >> /\ rTeams = << >>) =>
       /\ ~Truthy(rOut[k].assignToUser)
       /\ ~Truthy(rOut[k].assignToTeam)
       /\ rOut[k].reason # << >>

\* C18: route does not modify its inputs: after any number of calls every
\* rule, each rule's add_tags list in particular, is as it was before the
\* first call, also when the ticket escalates and a rule with an add_tags
\* list matched.  (The ticket, the agents and the teams are never written
\* by a call.)
C18_InputsUnmodified == rRules = rGiven

\* C19: the audit record and the ticket projection of a job are never left
\* half-applied: once no job is being processed, a ticket has an audit row in
\* classifications if and only if its live fields were updated, and then a
\* row with the classification the ticket shows exists.
C19_AuditIffProjection ==
  (\A l \in LoopIds : ~InJob(l)) =>
    \A t \in TicketIds :
       /\ (\E row \in BagToSet(classifications) : row.ticket_id = t)
            <=> tickets[t].ai_processed
       /\ tickets[t].ai_processed =>
            \E row \in BagToSet(classifications) :
               /\ row.ticket_id = t
               /\ row.predicted_category = tickets[t].category
               /\ row.predicted_priority = tickets[t].priority
               /\ row.predicted_sentiment = tickets[t].sentiment
               /\ row.sentiment_score = tickets[t].sentiment_score

\* C20: a job's routing job is pushed if and only if auto-routing is on and
\* the job's audit insert and ticket update both returned without raising:
\* the push is issued right after the update and never before it, it puts
\* exactly one entry with the job's ticketId and tenantId on the routing
\* queue, and nothing is pushed when a step raised or auto-routing is off.
C20_RoutingJobAfterUpdate ==
  /\ [](Len(routingQueue) <= enqueued)
  /\ [][/\ \A l \in LoopIds :
             /\ (lp[l].pc = "update" /\ Moved(l) /\ thrown' = NoError /\ autoRouting)
                  => lp'[l].pc = "routePush"
             /\ (lp'[l].pc = "routePush" /\ Moved(l))
                  => (lp[l].pc = "update" /\ thrown' = NoError /\ autoRouting)
             /\ (InJob(l) /\ Moved(l) /\ thrown' # NoError)
                  => (routingQueue' = routingQueue /\ lp'[l].pc # "routePush")
        /\ routingQueue' # routingQueue =>
             /\ autoRouting
             /\ thrown' = NoError
             /\ \E l \in LoopIds :
                  /\ lp[l].pc = "routePush"
                  /\ Moved(l)
                  /\ ~InJob(l)'
                  /\ routingQueue' =
                       <<<<"routing", lp[l].job.ticketId, lp[l].job.tenantId>>>>
                         \o routingQueue]_vars

\* the routing job of t1 is on the routing queue and t1 shows its classification
C20_Witness ==
  /\ autoRouting
  /\ Len(routingQueue) = 1
  /\ routingQueue[1] = <<"routing", "t1", "tenantA">>
  /\ tickets["t1"].ai_processed
  /\ \A l \in LoopIds : ~InJob(l)

\* C21: on a successful answer every numeric confidence v of the service is
\* returned as min(1, max(0, v)) and the numeric sentiment score s as
\* min(1, max(-1, s)); a confidence of exactly 0 is returned as 0.
Clamped(v, lo, hi) == IF v.n < lo THEN JSNum(lo) ELSE IF v.n > hi THEN JSNum(hi) ELSE v

C21_NumbersClamped ==
  (cDone /\ cIn.kind = "ok") =>
    /\ cIn.res.ccat.t = "number" => cOut.confidence.category = Clamped(cIn.res.ccat, 0, One)
    /\ cIn.res.cpri.t = "number" => cOut.confidence.priority = Clamped(cIn.res.cpri, 0, One)
    /\ cIn.res.csen.t = "number" => cOut.confidence.sentiment = Clamped(cIn.res.csen, 0, One)
    /\ cIn.res.score.t = "number" => cOut.sentiment.score = Clamped(cIn.res.score, 0 - One, One)

\* the rule of the list as first passed that comes first when the matching
\* rules are taken by descending priority, equal priorities in list order
FirstByPriority(i) ==
  /\ matchesRule(rTicket, rGiven[i].conditions)
  /\ \A j \in 1..Len(rGiven) :
       (j # i /\ matchesRule(rTicket, rGiven[j].conditions)) =>
         \/ OrNum(rGiven[j].priority, 0) < OrNum(rGiven[i].priority, 0)
         \/ (OrNum(rGiven[j].priority, 0) = OrNum(rGiven[i].priority, 0) /\ i < j)

\* C22: rule matching returns the actions of the first matching rule, the
\* rules taken by descending priority and rules of equal priority in list
\* order; the rule's name is recorded in the decision's reason; when no rule
\* matches, step 1 sets no field of the decision.
C22_FirstMatchingRule ==
  /\ Len(rOut) = 1 =>
       /\ \A i \in 1..Len(rGiven) :
            FirstByPriority(i) =>
              /\ ~rMatch.null
              /\ rMatch.ruleName = rGiven[i].name
              /\ rMatch.assignToTeam = rGiven[i].assign_to_team
              /\ rMatch.assignToUser = rGiven[i].assign_to_user
              /\ rMatch.setPriority = rGiven[i].set_priority
              /\ rMatch.addTags = rGiven[i].add_tags
       /\ (\A i \in 1..Len(rGiven) : ~matchesRule(rTicket, rGiven[i].conditions)) =>
            (rMatch.null /\ Step1(rMatch) = NewRouting)
  /\ \A k \in 1..Len(rOut) :
       ~rMatch.null =>
         /\ Len(rOut[k].reason) >= 2
         /\ rOut[k].reason[1] = "Matched routing rule: "
         /\ rOut[k].reason[2] = rMatch.ruleName

\* what a condition value asks of the ticket field of its name: equality
\* with a plain value, membership in a list, every stated operator of a
\* comparison object
ConditionHolds(ticketValue, value) ==
  CASE value.kind = "plain" -> ticketValue = value.value
    [] value.kind = "array" -> ticketValue \in value.list
    [] value.kind = "object" ->
         /\ value.gt # JSUndefined => JSLess(value.gt, ticketValue)
         /\ value.gte # JSUndefined => JSLessEq(value.gte, ticketValue)
         /\ value.lt # JSUndefined => JSLess(ticketValue, value.lt)
         /\ value.lte # JSUndefined => JSLessEq(ticketValue, value.lte)
         /\ value.ne # JSUndefined => ticketValue # value.ne

\* C23: a rule matches a ticket exactly when its condition set is present and
\* every condition of it holds for the ticket field of the same name (a plain
\* value by equality, a list by membership, a comparison object by each
\* stated operator); so an empty condition set matches every ticket and an
\* absent one matches none.  Checked on the calls with one rule.
C23_MatchesIffAllConditionsHold ==
  (Len(rGiven) = 1 /\ (rThrown \/ Len(rOut) >= 1)) =>
    LET conditions == rGiven[1].conditions
        required ==
          /\ ~conditions.null
          /\ \A i \in 1..Len(conditions.entries) :
               ConditionHolds(TicketValue(rTicket, conditions.entries[i].key),
                              conditions.entries[i].value)
    IN  /\ ~rThrown
        /\ ~rMatch.null <=> required

\* the candidate tags of a category in the specification's table
CandidateTags(category) ==
  CASE category = JSStr("billing") -> {"billing", "payments", "finance"}
    [] category \in {JSStr("technical"), JSStr("bug")} -> {"technical", "engineering", "qa"}
    [] category = JSStr("feature_request") -> {"product", "feedback"}
    [] category = JSStr("account") -> {"account", "customer_success"}
    [] OTHER -> {"support"}

\* C24: when no rule assigned a team and the ticket has a category, the
\* decision's team is the first team of the list whose skills meet the
\* candidate tags of the category in the specification's table, the first
\* team of the list when none does, and no team when the list is empty; a
\* ticket without category gets no team from this step.
C24_TeamByCategory ==
  \A k \in 1..Len(rOut) :
    ~Truthy(rMatch.assignToTeam) =>
      LET meets == {i \in 1..Len(rTeams) :
                      rTeams[i].skills \cap CandidateTags(rTicket.category) # {}}
      IN  IF ~Truthy(rTicket.category) \/ rTeams = << >>
            THEN rOut[k].assignToTeam = JSNull
          ELSE IF meets = {} THEN rOut[k].assignToTeam = JSStr(rTeams[1].id)
          ELSE \E i \in meets :
                 /\ \A j \in meets : i <= j
                 /\ rOut[k].assignToTeam = JSStr(rTeams[i].id)

\* the score of the agent at position i of the pool for the team of a decision
TeamScore(i, team) ==
  10 * One * Cardinality(rAgents[i].skills \cap categorySkills(rTicket.category))
  + 20 * (One - Load(rAgents[i]))
  + (IF \E tm \in rAgents[i].team_members : JSStr(tm.team_id) = team /\ tm.is_team_lead
       THEN 5 * One ELSE 0)

\* C25: when a team is assigned and the rule assigned no user, step 3 chooses
\* the first agent of the list among the members of the team whose score
\* 10 x relevant skills + 20 x (1 - load) + 5 for the team's lead is maximal,
\* and no user when the team has no member in the list.  Observed on the
\* decisions for tickets that do not escalate, where steps 4 and 5 leave the
\* user alone.
C25_BestAgentByScore ==
  \A k \in 1..Len(rOut) :
    (~Trigger(rTicket) /\ Truthy(rOut[k].assignToTeam) /\ ~Truthy(rMatch.assignToUser)) =>
      LET team == rOut[k].assignToTeam
          members == {i \in 1..Len(rAgents) :
                        \E tm \in rAgents[i].team_members : JSStr(tm.team_id) = team}
      IN  IF members = {} THEN rOut[k].assignToUser = JSNull
          ELSE \E i \in members :
                 /\ rOut[k].assignToUser = JSStr(rAgents[i].id)
                 /\ \A j \in members :
                      \/ TeamScore(j, team) < TeamScore(i, team)
                      \/ (TeamScore(j, team) = TeamScore(i, team) /\ i <= j)

\* a calm billing ticket went to team T1: the idle lead at the second
\* position outscored the skilled but loaded member at the first, 25 to 22,
\* by the lead's bonus
C25_Witness ==
  /\ Len(rOut) = 1
  /\ ~Trigger(rTicket)
  /\ rTicket.category = JSStr("billing")
  /\ rOut[1].assignToTeam = JSStr("T1")
  /\ Len(rAgents) = 2
  /\ rAgents[1].team_members = {TeamMember("T1", FALSE)}
  /\ rAgents[2].team_members = {TeamMember("T1", TRUE)}
  /\ TeamScore(1, JSStr("T1")) = 22 * One
  /\ TeamScore(2, JSStr("T1")) = 25 * One
  /\ rOut[1].assignToUser = JSStr("a2")

\* C26: route() never assigns a ticket to an agent that is not active: the
\* user that best-agent scoring, escalation or load balancing puts in the
\* decision is an agent of the list whose is_active is true.
C26_AssignsActiveAgents ==
  \A k \in 1..Len(rOut) :
    (Truthy(rOut[k].assignToUser) /\ rOut[k].assignToUser # rMatch.assignToUser) =>
      \E i \in 1..Len(rAgents) :
        /\ rOut[k].assignToUser = JSStr(rAgents[i].id)
        /\ rAgents[i].is_active

\* C27: on escalation the candidates are the leads of the team already
\* chosen (the leads of any team when none was chosen) and, when there is no
\* such lead, the managers; the candidate of the lowest load ratio, the first
\* of the list among equals, becomes the decision's user in place of any user
\* chosen before; with no candidate the user of steps 1 to 3 stays (load
\* balancing may fill it when neither team nor user is assigned).
C27_SeniorLeastLoaded ==
  \A k \in 1..Len(rOut) :
    Trigger(rTicket) =>
      LET team == BeforeEscalation.assignToTeam
          leads == {i \in 1..Len(rAgents) :
                      \E tm \in rAgents[i].team_members :
                         tm.is_team_lead /\ (team = JSNull \/ JSStr(tm.team_id) = team)}
          managers == {i \in 1..Len(rAgents) : rAgents[i].role = "manager"}
          candidates == IF leads # {} THEN leads ELSE managers
          ratio == [i \in 1..Len(rAgents) |->
                      (OrNum(rAgents[i].current_ticket_count, 0) * One)
                        \div OrNum(rAgents[i].max_tickets, 10)]
      IN  IF candidates # {}
            THEN \E i \in candidates :
                   /\ rOut[k].assignToUser = JSStr(rAgents[i].id)
                   /\ \A j \in candidates :
                        ratio[i] < ratio[j] \/ (ratio[i] = ratio[j] /\ i <= j)
          ELSE (BeforeEscalation.assignToUser # JSNull \/ team # JSNull) =>
                 rOut[k].assignToUser = BeforeEscalation.assignToUser

\* an escalating ticket had the user a2 from a rule and the team T1 from its
\* category; of the two leads of T1 the idle one, a1, replaced a2
C27_Witness ==
  /\ Len(rOut) >= 1
  /\ Trigger(rTicket)
  /\ BeforeEscalation.assignToTeam = JSStr("T1")
  /\ BeforeEscalation.assignToUser = JSStr("a2")
  /\ Len(rAgents) = 2
  /\ rAgents[1].team_members = {TeamMember("T1", TRUE)}
  /\ rAgents[2].team_members = {TeamMember("T1", TRUE)}
  /\ rAgents[1].current_ticket_count = JSNull
  /\ rAgents[2].current_ticket_count = JSNum(2)
  /\ rOut[1].assignToUser = JSStr("a1")

\* the decision of the last call as steps 1 to 4 leave it
AfterEscalation == Step4(BeforeEscalation, rTicket, rAgents)

\* C28: load balancing runs exactly when steps 1 to 4 assigned neither team
\* nor user: the user is then the agent of the whole pool with the lowest
\* load ratio, the first of the list among equals, and the reason is the one
\* of load balancing; otherwise, in particular with a team and no user found
\* in it, team, user and reason are as steps 1 to 4 left them.
C28_LoadBalancingOnlyUnassigned ==
  \A k \in 1..Len(rOut) :
    LET ratio == [i \in 1..Len(rAgents) |->
                    (OrNum(rAgents[i].current_ticket_count, 0) * One)
                      \div OrNum(rAgents[i].max_tickets, 10)]
    IN  IF AfterEscalation.assignToTeam = JSNull /\ AfterEscalation.assignToUser = JSNull
          THEN /\ rOut[k].assignToTeam = JSNull
               /\ IF rAgents = << >> THEN rOut[k].assignToUser = JSNull
                  ELSE /\ \E i \in 1..Len(rAgents) :
                            /\ rOut[k].assignToUser = JSStr(rAgents[i].id)
                            /\ \A j \in 1..Len(rAgents) :
                                 ratio[i] < ratio[j] \/ (ratio[i] = ratio[j] /\ i <= j)
                       /\ rOut[k].reason = <<"Assigned via load balancing">>
        ELSE /\ rOut[k].assignToTeam = AfterEscalation.assignToTeam
             /\ rOut[k].assignToUser = AfterEscalation.assignToUser
             /\ rOut[k].reason = AfterEscalation.reason

\* steps 1 to 4 assigned nothing, and of two agents the second, the less
\* loaded, got the ticket by load balancing
C28_Witness ==
  /\ Len(rOut) >= 1
  /\ AfterEscalation.assignToTeam = JSNull
  /\ AfterEscalation.assignToUser = JSNull
  /\ Len(rAgents) = 2
  /\ rAgents[1].current_ticket_count = JSNum(2)
  /\ rAgents[2].current_ticket_count = JSNull
  /\ rOut[1].assignToUser = JSStr("a2")
  /\ rOut[1].reason = <<"Assigned via load balancing">>

\* C29: the confidence of every decision route() returns is
\* min(1, 0.5 + 0.3 if team and user are both assigned + 0.1 if the ticket is
\* AI-processed + 0.1 if its AI confidence exceeds 0.8), with or without a
\* matching rule, and so lies between 0.5 and 1.
C29_ConfidenceFormula ==
  \A k \in 1..Len(rOut) :
    LET sum == Half
               + (IF rOut[k].assignToTeam # JSNull /\ rOut[k].assignToUser # JSNull
                    THEN 3 * Tenth ELSE 0)
               + (IF rTicket.ai_processed = JSBool(TRUE) THEN Tenth ELSE 0)
               + (IF rTicket.ai_confidence.t = "number" /\ rTicket.ai_confidence.n > 8 * Tenth
                    THEN Tenth ELSE 0)
    IN  /\ rOut[k].confidence = (IF sum > One THEN One ELSE sum)
        /\ rOut[k].confidence >= Half
        /\ rOut[k].confidence <= One

\* a rule matched, and the decision came back with confidence 0.7, below the
\* 0.9 of rule matching
C29_Witness ==
  /\ Len(rOut) >= 1
  /\ ~rMatch.null
  /\ rTicket.ai_processed = JSBool(TRUE)
  /\ rTicket.ai_confidence = JSNum(9 * Tenth)
  /\ rOut[1].assignToUser = JSNull
  /\ rOut[1].confidence = 7 * Tenth

\* every tag the matching rule set is in the decision's addTags
RuleTagsIn(decision) ==
  \A i \in 1..Len(rMatch.addTags.items) :
     \E j \in 1..Len(decision.addTags) : decision.addTags[j] = rMatch.addTags.items[i]

\* C30 as claimed: a team, user or priority set by the matching rule is the
\* team, user or priority of the decision route() returns, and the rule's
\* tags are in its addTags.
C30_RuleFieldsKept ==
  \A k \in 1..Len(rOut) :
    ~rMatch.null =>
      /\ rMatch.assignToTeam # JSNull => rOut[k].assignToTeam = rMatch.assignToTeam
      /\ rMatch.assignToUser # JSNull => rOut[k].assignToUser = rMatch.assignToUser
      /\ rMatch.setPriority # JSNull => rOut[k].setPriority = rMatch.setPriority
      /\ k = Len(rOut) => RuleTagsIn(rOut[k])

\* C30 as amended: a team set by the matching rule is the decision's team and
\* the rule's tags are in its addTags; a user or priority set by the rule is
\* the decision's user or priority when the ticket does not escalate.
C30_RuleFieldsKeptUnlessEscalated ==
  \A k \in 1..Len(rOut) :
    ~rMatch.null =>
      /\ rMatch.assignToTeam # JSNull => rOut[k].assignToTeam = rMatch.assignToTeam
      /\ (rMatch.assignToUser # JSNull /\ ~Trigger(rTicket)) =>
           rOut[k].assignToUser = rMatch.assignToUser
      /\ (rMatch.setPriority # JSNull /\ ~Trigger(rTicket)) =>
           rOut[k].setPriority = rMatch.setPriority
      /\ k = Len(rOut) => RuleTagsIn(rOut[k])

\* a rule gave a billing ticket the team T2 while the first team of the list,
\* T1, is the one the category leads to: the decision's team is T2
C30_Witness ==
  /\ Len(rOut) >= 1
  /\ ~rMatch.null
  /\ rMatch.assignToTeam = JSStr("T2")
  /\ rTicket.category = JSStr("billing")
  /\ Len(rTeams) = 2
  /\ rTeams[1].id = "T1"
  /\ rOut[1].assignToTeam = JSStr("T2")

====
